---- MODULE Spec2Model ----
(***************************************************************************)
(* Model of the msgpack-rpc client of nvim-previewer (crate nvim-agent):   *)
(* the wire codec (rpc.rs), the reader loop spawned by Client::start       *)
(* (client.rs) and the request/reply path every generated API method       *)
(* shares (Function::generate_method in build.rs); and of the program's    *)
(* main thread (src/main.rs): PreviewerConfig::new and the loop of main.   *)
(***************************************************************************)
EXTENDS Integers, Sequences, FiniteSets, TLC

(* ------------------------------ bounds --------------------------------- *)
\* number of API method invocations made on the Client
MaxCalls == 2
\* number of things the peer does to the inbound stream: frames written,
\* plus closing it
MaxFrames == 2
\* the longest top-level array handed to read_from on its own
MaxArity == 4

Calls == 1..MaxCalls
\* reader threads, one for each start() invocation the program may make
Readers == {1, 2}

(* ------------------------------ values --------------------------------- *)
\* rmpv::Value, a closed tagged variant: k is the variant, v its payload
Nil == [k |-> "nil", v |-> 0]
IntV(n) == [k |-> "int", v |-> n]
StrV(s) == [k |-> "str", v |-> s]
ArrV(s) == [k |-> "arr", v |-> s]
BoolV(b) == [k |-> "bool", v |-> b]
MapV(s) == [k |-> "map", v |-> s]

\* Value::as_i64 / as_u64 / as_str / as_array succeed on these (every integer
\* of the model lies within the 64-bit ranges)
IsI64(x) == x.k = "int"
\* variant: any integer passes for an unsigned one
AnyInt(x) == x.k = "int"

IsU64(x) == x.k = "int" /\ x.v >= 0
IsStr(x) == x.k = "str"
IsArr(x) == x.k = "arr"

(* ------------------------------ messages ------------------------------- *)
Request(id, m, p) == [t |-> "Request", msgid |-> id, method |-> m, params |-> p]
Response(id, e, r) == [t |-> "Response", msgid |-> id, error |-> e, result |-> r]
Notify(m, p) == [t |-> "Notify", method |-> m, params |-> p]
DecodeErr == [t |-> "Err"]

\* Message::read_from applied to one decoded top-level value
ReadFrom(value) ==
    IF ~IsArr(value) THEN DecodeErr
    ELSE LET arr == value.v
             has(i) == Len(arr) >= i
         IN  IF ~(has(1) /\ IsI64(arr[1])) THEN DecodeErr
             ELSE CASE arr[1].v = 0 ->
                         IF /\ has(2) /\ IsU64(arr[2])
                            /\ has(3) /\ IsStr(arr[3])
                            /\ has(4) /\ IsArr(arr[4])
                         THEN Request(arr[2].v, arr[3].v, arr[4].v)
                         ELSE DecodeErr
                    [] arr[1].v = 1 ->
                         IF has(2) /\ IsU64(arr[2]) /\ has(3) /\ has(4)
                         THEN Response(arr[2].v, arr[3], arr[4])
                         ELSE DecodeErr
                    [] arr[1].v = 2 ->
                         IF /\ has(2) /\ IsStr(arr[2])
                            /\ has(3) /\ IsArr(arr[3])
                         THEN Notify(arr[2].v, arr[3].v)
                         ELSE DecodeErr
                    [] OTHER -> DecodeErr

\* variant: the Response's error and result change places
EncodeSwapped(msg) ==
    CASE msg.t = "Request" ->
           ArrV(<<IntV(0), IntV(msg.msgid), StrV(msg.method), ArrV(msg.params)>>)
      [] msg.t = "Response" ->
           ArrV(<<IntV(1), IntV(msg.msgid), msg.result, msg.error>>)
      [] msg.t = "Notify" ->
           ArrV(<<IntV(2), StrV(msg.method), ArrV(msg.params)>>)

\* the value Message::write_to hands to write_value
Encode(msg) ==
    CASE msg.t = "Request" ->
           ArrV(<<IntV(0), IntV(msg.msgid), StrV(msg.method), ArrV(msg.params)>>)
      [] msg.t = "Response" ->
           ArrV(<<IntV(1), IntV(msg.msgid), msg.error, msg.result>>)
      [] msg.t = "Notify" ->
           ArrV(<<IntV(2), StrV(msg.method), ArrV(msg.params)>>)

\* write_value emits the array header, then the elements, as separate writes
Header(value) == <<[k |-> "hdr", v |-> Len(value.v)]>>
\* variant: the elements go out last to first
BodyReversed(value) == [i \in 1..Len(value.v) |-> value.v[Len(value.v) + 1 - i]]

Body(value) == value.v

(* --------------------------- typed results ----------------------------- *)
Ok(x) == [ok |-> TRUE, val |-> x]
Err(x) == [ok |-> FALSE, val |-> x]
\* Error::Dirty(format!("{x:?}")): an error carrying the rendering of x
Dirty(x) == [k |-> "dirty", v |-> x]

\* declared return types of the generated methods used by the model
RetTypes == {"Object", "Integer"}

\* variant: the integer conversion takes whatever it is given
TryValueCoerce(ty, x) ==
    IF ty = "Integer" THEN Ok([k |-> "i64", v |-> IF IsI64(x) THEN x.v ELSE 0])
    ELSE Ok(x)

\* TryValueFrom<Value> for the declared return type, and the Buffer / Window /
\* Tabpage wrappers of generate_method
TryValueInto(ty, x) ==
    CASE ty = "Object" -> Ok(x)
      [] ty = "Integer" -> IF IsI64(x) THEN Ok([k |-> "i64", v |-> x.v])
                           ELSE Err(Dirty(StrV("value is not i64")))
      [] ty = "String" -> IF IsStr(x) THEN Ok([k |-> "String", v |-> x.v])
                          ELSE Err(Dirty(StrV("value is not a string")))
      [] ty = "Boolean" -> IF x.k = "bool" THEN Ok([k |-> "bool", v |-> x.v])
                           ELSE Err(Dirty(StrV("value is not bool")))
      [] ty = "Array" -> IF IsArr(x) THEN Ok([k |-> "Vec", v |-> x.v])
                         ELSE Err(Dirty(StrV("value is not an array")))
      [] ty = "Dictionary" -> IF x.k = "map" THEN Ok([k |-> "Map", v |-> x.v])
                              ELSE Err(Dirty(StrV("value is not a map")))
      [] ty = "void" -> Ok([k |-> "unit", v |-> 0])
      [] ty \in {"Buffer", "Window", "Tabpage"} -> Ok([k |-> ty, v |-> x])

(* ------------------------------ state ---------------------------------- *)
VARIABLES
    msgid,          \* Client.msgid, the call-id counter
    tasks,          \* Client.tasks: msgid -> call whose Sender is stored
    tasksPoisoned,  \* poison flag of the tasks mutex
    writerOwner,    \* holder of the writer mutex
    writerPoisoned, \* poison flag of the writer mutex
    readerOwner,    \* reader thread holding the reader mutex, 0 for none
    readerPoisoned, \* poison flag of the reader mutex
    wbuf,           \* bytes held in the BufWriter
    out,            \* bytes that reached the peer
    outBroken,      \* the outbound pipe fails every write
    inbound,        \* frames the peer wrote that no reader has consumed
    inEOF,          \* the peer closed the inbound stream
    sent,           \* number of frames the peer has written, plus the close
    pc,             \* per call: position in the generated method
    myid,           \* per call: the local msgid
    rtype,          \* per call: declared return type of the method
    chan,           \* per call: values sent into its mpsc channel
    ret,            \* per call: the value the method returned
    rpc,            \* per reader thread: position in the loop
    rreq,           \* per reader thread: msgid of the Request being answered
    nread,          \* per reader thread: frames it took off the stream
    notif,          \* per reader thread: values queued in the notification channel
    yielded,        \* per reader thread: values its Receiver has yielded
    cstate,         \* per reader thread: what became of the Receiver
    cmsg,           \* codec: the Message handed to write_to
    cstage,         \* codec: position in write_to, then read_from; in eval
    ctail,          \* codec: what the stream holds after the frame
    cres,           \* codec: what read_from returned; what eval returned
    crest,          \* codec: what the stream holds after read_from
    main            \* the main thread and the statics it writes (a record)

vars == <<msgid, tasks, tasksPoisoned, writerOwner, writerPoisoned, readerOwner,
          readerPoisoned, wbuf, out, outBroken, inbound, inEOF, sent, pc, myid,
          rtype, chan, ret, rpc, rreq, nread, notif, yielded, cstate,
          cmsg, cstage, ctail, cres, crest, main>>

codecVars == <<cmsg, cstage, ctail, cres, crest>>

mainVars == <<main>>

\* the fields of main
args == main.args                 \* the strings handed to PreviewerConfig::new
config == main.config             \* Previewer.config
PREVIEW_FILE_PATH == main.file    \* the static of that name
PREVIEW_CSS_PATH == main.css      \* the static of that name
opened == main.opened             \* browser launches made by Previewer::preview
printed == main.printed           \* messages handed to Previewer::print
mpc == main.pc                    \* position of the main thread

Free == [t |-> "none", i |-> 0]
ByCall(k) == [t |-> "call", i |-> k]
ByReader(r) == [t |-> "reader", i |-> r]

\* Client::new, before any start() or call
Fresh ==
    /\ msgid = 0
    /\ tasks = [m \in {} |-> 0]
    /\ tasksPoisoned = FALSE
    /\ writerOwner = Free
    /\ writerPoisoned = FALSE
    /\ readerOwner = 0
    /\ readerPoisoned = FALSE
    /\ wbuf = <<>>
    /\ out = <<>>
    /\ outBroken = FALSE
    /\ inbound = <<>>
    /\ inEOF = FALSE
    /\ sent = 0
    /\ pc = [k \in Calls |-> "idle"]
    /\ myid = [k \in Calls |-> 0]
    /\ rtype = [k \in Calls |-> "Object"]
    /\ chan = [k \in Calls |-> <<>>]
    /\ ret = [k \in Calls |-> Err(Nil)]
    /\ rreq = [r \in Readers |-> 0]
    /\ nread = [r \in Readers |-> 0]
    /\ notif = [r \in Readers |-> <<>>]
    /\ yielded = [r \in Readers |-> <<>>]
    /\ cstate = [r \in Readers |-> "none"]

\* no Message is being round-tripped on its own
NoCodec ==
    /\ cmsg = DecodeErr
    /\ cstage = "off"
    /\ ctail = <<>>
    /\ cres = DecodeErr
    /\ crest = <<>>

\* Option<T>
None == [some |-> FALSE, val |-> <<>>]
Some(x) == [some |-> TRUE, val |-> x]

\* the port of PreviewerConfig::default
DEFAULT_PORT == 3008

\* the main thread is left out: no configuration made, no file previewed
NoMain ==
    main = [args |-> [browser |-> <<>>, port |-> <<>>],
            config |-> [browser |-> None, port |-> DEFAULT_PORT],
            file |-> None, css |-> None, opened |-> <<>>, printed |-> <<>>,
            pc |-> "off"]

\* the program calls start() once on its Client (Previewer::new)
Init ==
    /\ Fresh
    /\ NoCodec
    /\ NoMain
    /\ rpc = [r \in Readers |-> IF r = 1 THEN "unstarted" ELSE "unused"]

\* a program that calls start() twice on one Client
InitStarts ==
    /\ Fresh
    /\ NoCodec
    /\ NoMain
    /\ rpc = [r \in Readers |-> "unstarted"]

(* ------------------------------ helpers -------------------------------- *)
\* variant: the counter is not advanced
SameMsgid(m) == m

\* variant: the counter advances by two
SkipMsgid(m) == m + 2

\* `msgid += 1`
NextMsgid(m) == m + 1

\* variant: the slot is registered under the counter's new value
InsertUnderCounter(tbl, id, k) ==
    [m \in DOMAIN tbl \cup {id + 1} |-> IF m = id + 1 THEN k ELSE tbl[m]]

\* variant: the Sender is not stored
NoInsert(tbl, id, k) == tbl

\* HashMap::insert on the pending-call table
Insert(tbl, id, k) == [m \in DOMAIN tbl \cup {id} |-> IF m = id THEN k ELSE tbl[m]]

\* variant: every entry goes
DropAll(tbl, id) == [m \in {} |-> 0]

\* HashMap::remove on the pending-call table
Remove(tbl, id) == [m \in DOMAIN tbl \ {id} |-> tbl[m]]

\* variant: the writer is used without mutual exclusion
NoLock(owner) == TRUE

\* variant: lock() returns although the mutex is held
LockAnyway(owner) == TRUE

\* Mutex::lock returns once no other thread holds the mutex
CanLock(owner) == owner = Free

\* the Receiver of call k lives from channel creation to the end of the method
RxAlive(k) == pc[k] \in {"insert", "lock", "write", "write2", "flush", "recv"}
\* the Sender of call k lives in the table until it is removed or replaced
SenderAlive(k) == \E m \in DOMAIN tasks : tasks[m] = k

\* variant: the test of the error field is inverted
DeliverSwapped(error, result) ==
    IF error = Nil THEN Err(Dirty(error)) ELSE Ok(result)

\* what the reader loop sends into the reply channel for a Response
Deliver(error, result) ==
    IF error # Nil THEN Err(Dirty(error)) ELSE Ok(result)

\* the match on receiver.recv() that ends the generated method; got is the
\* sequence of values in the channel (empty: the Sender was dropped)
CallResult(ty, got) ==
    IF got = <<>> THEN Err(Dirty([k |-> "RecvError", v |-> 0]))
    ELSE IF got[1].res.ok THEN TryValueInto(ty, got[1].res.val)
    ELSE Err(Dirty(got[1].res.val))

\* variant: write_to returns without flushing
WriteNoFlush(stage, value) ==
    CASE stage = "write" -> <<wbuf \o Header(value), out>>
      [] stage = "write2" -> <<wbuf \o Body(value), out>>
      [] stage = "flush" -> <<wbuf, out>>

\* one step of Message::write_to on the BufWriter: the header, the elements,
\* the flush; <<wbuf', out'>>
WriteStep(stage, value) ==
    CASE stage = "write" -> <<wbuf \o Header(value), out>>
      [] stage = "write2" -> <<wbuf \o Body(value), out>>
      [] stage = "flush" -> <<(<<>>), out \o wbuf>>
NextStage(stage) ==
    CASE stage = "write" -> "write2"
      [] stage = "write2" -> "flush"
      [] stage = "flush" -> "done"
\* a write fails when it reaches a broken pipe: the frames of the model fit
\* the BufWriter, so write_value only fills the buffer and flush hits the pipe
MayFail(stage) == outBroken /\ stage = "flush"
MaySucceed(stage) == ~MayFail(stage)

\* method name and params of the Requests the model issues
CallFrame(k) == Encode(Request(myid[k], "nvim_eval", <<>>))
\* the canned reply to an inbound Request
CannedFrame(r) == Encode(Response(rreq[r], Nil, Nil))

(* -------------------------- generated method --------------------------- *)
\* entry of the method: it takes `&mut self`, so an invocation starts only
\* when the previous ones have ended; it reserves the msgid, advances the
\* counter, builds the Request and creates the reply channel
CallBegin(k) ==
    /\ pc[k] = "idle"
    /\ \A j \in Calls : j < k => pc[j] \in {"returned", "panicked"}
    /\ \E ty \in RetTypes : rtype' = [rtype EXCEPT ![k] = ty]
    /\ myid' = [myid EXCEPT ![k] = msgid]
    /\ msgid' = NextMsgid(msgid)
    /\ pc' = [pc EXCEPT ![k] = "insert"]
    /\ UNCHANGED <<tasks, tasksPoisoned, writerOwner, writerPoisoned, readerOwner,
                   readerPoisoned, wbuf, out, outBroken, inbound, inEOF, sent,
                   chan, ret, rpc, rreq, nread, notif>>
    /\ UNCHANGED <<yielded, cstate>>
    /\ UNCHANGED codecVars
    /\ UNCHANGED mainVars

\* `tasks.lock().unwrap().insert(msgid, sender)`
CallInsert(k) ==
    /\ pc[k] = "insert"
    /\ IF tasksPoisoned
       THEN /\ pc' = [pc EXCEPT ![k] = "panicked"]
            /\ tasks' = tasks
       ELSE /\ tasks' = Insert(tasks, myid[k], k)
            /\ pc' = [pc EXCEPT ![k] = "lock"]
    /\ UNCHANGED <<msgid, tasksPoisoned, writerOwner, writerPoisoned, readerOwner,
                   readerPoisoned, wbuf, out, outBroken, inbound, inEOF, sent,
                   myid, rtype, chan, ret, rpc, rreq, nread, notif>>
    /\ UNCHANGED <<yielded, cstate>>
    /\ UNCHANGED codecVars
    /\ UNCHANGED mainVars

\* `let writer = &mut *writer.lock().unwrap()`: the guard lives to the end of
\* the method body
CallLockWriter(k) ==
    /\ pc[k] = "lock"
    /\ CanLock(writerOwner)
    /\ IF writerPoisoned
       THEN /\ pc' = [pc EXCEPT ![k] = "panicked"]
            /\ writerOwner' = writerOwner
       ELSE /\ writerOwner' = ByCall(k)
            /\ pc' = [pc EXCEPT ![k] = "write"]
    /\ UNCHANGED <<msgid, tasks, tasksPoisoned, writerPoisoned, readerOwner,
                   readerPoisoned, wbuf, out, outBroken, inbound, inEOF, sent,
                   myid, rtype, chan, ret, rpc, rreq, nread, notif>>
    /\ UNCHANGED <<yielded, cstate>>
    /\ UNCHANGED codecVars
    /\ UNCHANGED mainVars

\* `req.write_to(writer).expect("Error sending message")`
CallWrite(k) ==
    /\ pc[k] \in {"write", "write2", "flush"}
    /\ \/ /\ MaySucceed(pc[k])
          /\ wbuf' = WriteStep(pc[k], CallFrame(k))[1]
          /\ out' = WriteStep(pc[k], CallFrame(k))[2]
          /\ pc' = [pc EXCEPT ![k] = IF pc[k] = "flush" THEN "recv"
                                     ELSE NextStage(pc[k])]
          /\ UNCHANGED <<writerOwner, writerPoisoned>>
       \/ /\ MayFail(pc[k])
          /\ pc' = [pc EXCEPT ![k] = "panicked"]
          /\ writerPoisoned' = TRUE
          /\ writerOwner' = Free
          /\ UNCHANGED <<wbuf, out>>
    /\ UNCHANGED <<msgid, tasks, tasksPoisoned, readerOwner, readerPoisoned,
                   outBroken, inbound, inEOF, sent, myid, rtype, chan, ret,
                   rpc, rreq, nread, notif>>
    /\ UNCHANGED <<yielded, cstate>>
    /\ UNCHANGED codecVars
    /\ UNCHANGED mainVars

\* `match receiver.recv()`, the conversion of the result and the return, which
\* drops the writer guard
CallRecv(k) ==
    /\ pc[k] = "recv"
    /\ chan[k] # <<>> \/ ~SenderAlive(k)
    /\ ret' = [ret EXCEPT ![k] = CallResult(rtype[k], chan[k])]
    /\ pc' = [pc EXCEPT ![k] = "returned"]
    /\ writerOwner' = IF writerOwner = ByCall(k) THEN Free ELSE writerOwner
    /\ UNCHANGED <<msgid, tasks, tasksPoisoned, writerPoisoned, readerOwner,
                   readerPoisoned, wbuf, out, outBroken, inbound, inEOF, sent,
                   myid, rtype, chan, rpc, rreq, nread, notif>>
    /\ UNCHANGED <<yielded, cstate>>
    /\ UNCHANGED codecVars
    /\ UNCHANGED mainVars

(* ----------------------------- reader loop ----------------------------- *)
\* Client::start: creates the notification channel and spawns the thread
Start(r) ==
    /\ rpc[r] = "unstarted"
    /\ \A q \in Readers : q < r => rpc[q] # "unstarted"
    /\ rpc' = [rpc EXCEPT ![r] = "lock"]
    /\ UNCHANGED <<msgid, tasks, tasksPoisoned, writerOwner, writerPoisoned,
                   readerOwner, readerPoisoned, wbuf, out, outBroken, inbound,
                   inEOF, sent, pc, myid, rtype, chan, ret, rreq, nread, notif>>
    /\ cstate' = [cstate EXCEPT ![r] = "held"]
    /\ UNCHANGED yielded
    /\ UNCHANGED codecVars
    /\ UNCHANGED mainVars

\* `let reader = &mut *reader.lock().unwrap()` at the top of an iteration
ReaderLock(r) ==
    /\ rpc[r] = "lock"
    /\ readerOwner = 0
    /\ IF readerPoisoned
       THEN /\ rpc' = [rpc EXCEPT ![r] = "panicked"]
            /\ readerOwner' = readerOwner
       ELSE /\ rpc' = [rpc EXCEPT ![r] = "read"]
            /\ readerOwner' = r
    /\ UNCHANGED <<msgid, tasks, tasksPoisoned, writerOwner, writerPoisoned,
                   readerPoisoned, wbuf, out, outBroken, inbound, inEOF, sent,
                   pc, myid, rtype, chan, ret, rreq, nread, notif>>
    /\ UNCHANGED <<yielded, cstate>>
    /\ UNCHANGED codecVars
    /\ UNCHANGED mainVars

\* read_from has something to return: a frame, or the end of the stream
Readable == inbound # <<>> \/ inEOF
\* the result of Message::read_from on the stream as it stands
Decoded == IF inbound = <<>> THEN DecodeErr ELSE ReadFrom(Head(inbound))
\* read_value takes the frame off the stream (nothing at end of stream)
Consume(r) ==
    /\ inbound' = IF inbound = <<>> THEN inbound ELSE Tail(inbound)
    /\ nread' = [nread EXCEPT ![r] = IF inbound = <<>> THEN @ ELSE @ + 1]

\* variant: the loop logs the error and reads on
ContinueAfterError == "lock"

\* where the loop goes after read_from returned Err
AfterReadError == "done"

\* the `Err(e) => break` arm
ReaderReadError(r) ==
    /\ rpc[r] = "read"
    /\ Readable
    /\ Decoded.t = "Err"
    /\ Consume(r)
    /\ rpc' = [rpc EXCEPT ![r] = AfterReadError]
    /\ readerOwner' = 0
    /\ UNCHANGED <<msgid, tasks, tasksPoisoned, writerOwner, writerPoisoned,
                   readerPoisoned, wbuf, out, outBroken, inEOF, sent, pc, myid,
                   rtype, chan, ret, rreq, notif>>
    /\ UNCHANGED <<yielded, cstate>>
    /\ UNCHANGED codecVars
    /\ UNCHANGED mainVars

\* the `Ok(Message::Request {..})` arm up to the writer lock
ReaderHandleRequest(r) ==
    /\ rpc[r] = "read"
    /\ Readable
    /\ Decoded.t = "Request"
    /\ Consume(r)
    /\ rreq' = [rreq EXCEPT ![r] = Decoded.msgid]
    /\ rpc' = [rpc EXCEPT ![r] = "resp_lock"]
    /\ UNCHANGED <<msgid, tasks, tasksPoisoned, writerOwner, writerPoisoned,
                   readerOwner, readerPoisoned, wbuf, out, outBroken, inEOF, sent,
                   pc, myid, rtype, chan, ret, notif>>
    /\ UNCHANGED <<yielded, cstate>>
    /\ UNCHANGED codecVars
    /\ UNCHANGED mainVars

\* `let writer = &mut *writer.lock().unwrap()` in the Request arm
ReaderRespLock(r) ==
    /\ rpc[r] = "resp_lock"
    /\ CanLock(writerOwner)
    /\ IF writerPoisoned
       THEN /\ rpc' = [rpc EXCEPT ![r] = "panicked"]
            /\ readerPoisoned' = TRUE
            /\ readerOwner' = 0
            /\ writerOwner' = writerOwner
       ELSE /\ rpc' = [rpc EXCEPT ![r] = "write"]
            /\ writerOwner' = ByReader(r)
            /\ UNCHANGED <<readerPoisoned, readerOwner>>
    /\ UNCHANGED <<msgid, tasks, tasksPoisoned, writerPoisoned, wbuf, out,
                   outBroken, inbound, inEOF, sent, pc, myid, rtype, chan, ret,
                   rreq, nread, notif>>
    /\ UNCHANGED <<yielded, cstate>>
    /\ UNCHANGED codecVars
    /\ UNCHANGED mainVars

\* `resp.write_to(writer).expect("failed to send response")`, then the end of
\* the iteration, which drops both guards
ReaderRespWrite(r) ==
    /\ rpc[r] \in {"write", "write2", "flush"}
    /\ \/ /\ MaySucceed(rpc[r])
          /\ wbuf' = WriteStep(rpc[r], CannedFrame(r))[1]
          /\ out' = WriteStep(rpc[r], CannedFrame(r))[2]
          /\ IF rpc[r] = "flush"
             THEN /\ rpc' = [rpc EXCEPT ![r] = "lock"]
                  /\ writerOwner' = IF writerOwner = ByReader(r) THEN Free
                                     ELSE writerOwner
                  /\ readerOwner' = 0
             ELSE /\ rpc' = [rpc EXCEPT ![r] = NextStage(rpc[r])]
                  /\ UNCHANGED <<writerOwner, readerOwner>>
          /\ UNCHANGED <<writerPoisoned, readerPoisoned>>
       \/ /\ MayFail(rpc[r])
          /\ rpc' = [rpc EXCEPT ![r] = "panicked"]
          /\ writerPoisoned' = TRUE
          /\ readerPoisoned' = TRUE
          /\ writerOwner' = Free
          /\ readerOwner' = 0
          /\ UNCHANGED <<wbuf, out>>
    /\ UNCHANGED <<msgid, tasks, tasksPoisoned, outBroken, inbound, inEOF, sent,
                   pc, myid, rtype, chan, ret, rreq, nread, notif>>
    /\ UNCHANGED <<yielded, cstate>>
    /\ UNCHANGED codecVars
    /\ UNCHANGED mainVars

\* variant: the Response arm empties the table
ClearTable(tbl, id) == [m \in {} |-> 0]

\* variant: the Response arm looks the Sender up and leaves the entry
KeepEntry(tbl, id) == tbl

\* the table after the Response arm handled msgid id
AfterResponse(tbl, id) == Remove(tbl, id)
\* the call whose Sender the Response arm uses for msgid id
SenderFor(tbl, id) == tbl[id]

\* the `Ok(Message::Response {..})` arm:
\* `senders.lock().unwrap().remove(&msgid).unwrap()` and the send
ReaderHandleResponse(r) ==
    /\ rpc[r] = "read"
    /\ Readable
    /\ Decoded.t = "Response"
    /\ Consume(r)
    /\ IF tasksPoisoned \/ Decoded.msgid \notin DOMAIN tasks
       THEN \* unwrap() panics with the reader guard (and the tasks guard) live
            /\ rpc' = [rpc EXCEPT ![r] = "panicked"]
            /\ tasksPoisoned' = TRUE
            /\ readerPoisoned' = TRUE
            /\ UNCHANGED <<tasks, chan>>
       ELSE LET k == SenderFor(tasks, Decoded.msgid) IN
            /\ tasks' = AfterResponse(tasks, Decoded.msgid)
            /\ chan' = IF RxAlive(k)
                       THEN [chan EXCEPT ![k] = Append(@,
                               [res |-> Deliver(Decoded.error, Decoded.result),
                                from |-> Decoded])]
                       ELSE chan
            /\ rpc' = [rpc EXCEPT ![r] = "lock"]
            /\ UNCHANGED <<tasksPoisoned, readerPoisoned>>
    /\ readerOwner' = 0
    /\ UNCHANGED <<msgid, writerOwner, writerPoisoned, wbuf, out, outBroken,
                   inEOF, sent, pc, myid, rtype, ret, rreq, notif>>
    /\ UNCHANGED <<yielded, cstate>>
    /\ UNCHANGED codecVars
    /\ UNCHANGED mainVars

\* the Receiver that start() returned still exists
RxHeld(r) == cstate[r] \in {"held", "ended"}

\* variant: a rendezvous channel, a send waits for the queue to be taken
SyncSend(q) == q = <<>>

\* mpsc::channel() is asynchronous and unbounded: tx.send never waits
CanSend(q) == TRUE

\* variant: the value goes to the front of the queue
ForwardFirst(q, item) == <<item>> \o q

\* tx.send on a live channel: the value goes to the back of the queue
Forward(q, item) == Append(q, item)

\* the `Ok(Message::Notify {..})` arm: a send to a dropped Receiver returns
\* Err, which is logged
ReaderHandleNotify(r) ==
    /\ rpc[r] = "read"
    /\ Readable
    /\ Decoded.t = "Notify"
    /\ Consume(r)
    /\ CanSend(notif[r])
    /\ notif' = [notif EXCEPT ![r] =
                    IF RxHeld(r) THEN Forward(@, <<Decoded.method, Decoded.params>>)
                    ELSE @]
    /\ rpc' = [rpc EXCEPT ![r] = "lock"]
    /\ readerOwner' = 0
    /\ UNCHANGED <<msgid, tasks, tasksPoisoned, writerOwner, writerPoisoned,
                   readerPoisoned, wbuf, out, outBroken, inEOF, sent, pc, myid,
                   rtype, chan, ret, rreq>>
    /\ UNCHANGED <<yielded, cstate>>
    /\ UNCHANGED codecVars
    /\ UNCHANGED mainVars

(* ------------------------ notification consumer ------------------------ *)
\* variant: a Sender of the notification channel outlives the thread
TxKept(r) == TRUE

\* tx is moved into the thread's closure: it lives as long as the thread
TxAlive(r) == rpc[r] \notin {"unused", "unstarted", "done", "panicked"}

\* the Receiver yields the next queued value (one turn of `for .. in recv()`)
ConsumerRecv(r) ==
    /\ cstate[r] = "held"
    /\ notif[r] # <<>>
    /\ yielded' = [yielded EXCEPT ![r] = Append(@, Head(notif[r]))]
    /\ notif' = [notif EXCEPT ![r] = Tail(@)]
    /\ UNCHANGED <<msgid, tasks, tasksPoisoned, writerOwner, writerPoisoned,
                   readerOwner, readerPoisoned, wbuf, out, outBroken, inbound,
                   inEOF, sent, pc, myid, rtype, chan, ret, rpc, rreq, nread,
                   cstate>>
    /\ UNCHANGED codecVars
    /\ UNCHANGED mainVars

\* the queue is empty and every Sender is gone: the iteration ends
ConsumerEnd(r) ==
    /\ cstate[r] = "held"
    /\ notif[r] = <<>>
    /\ ~TxAlive(r)
    /\ cstate' = [cstate EXCEPT ![r] = "ended"]
    /\ UNCHANGED <<msgid, tasks, tasksPoisoned, writerOwner, writerPoisoned,
                   readerOwner, readerPoisoned, wbuf, out, outBroken, inbound,
                   inEOF, sent, pc, myid, rtype, chan, ret, rpc, rreq, nread,
                   notif, yielded>>
    /\ UNCHANGED codecVars
    /\ UNCHANGED mainVars

\* the Receiver is dropped, and what was queued with it
ConsumerDrop(r) ==
    /\ cstate[r] = "held"
    /\ cstate' = [cstate EXCEPT ![r] = "dropped"]
    /\ notif' = [notif EXCEPT ![r] = <<>>]
    /\ UNCHANGED <<msgid, tasks, tasksPoisoned, writerOwner, writerPoisoned,
                   readerOwner, readerPoisoned, wbuf, out, outBroken, inbound,
                   inEOF, sent, pc, myid, rtype, chan, ret, rpc, rreq, nread,
                   yielded>>
    /\ UNCHANGED codecVars
    /\ UNCHANGED mainVars

(* -------------------------------- peer --------------------------------- *)
\* the frames the peer may write: well-formed messages of each kind, a
\* Response for every msgid the model can issue (sent at any time: before the
\* call, during it, after it, twice), and malformed frames
PeerFrames ==
    {Encode(Request(9, "ping", <<>>)), Encode(Notify("tick", <<>>)),
     Encode(Notify("tock", <<IntV(1)>>))}
    \cup {Encode(Response(m, e[1], e[2])) :
              m \in 0..(MaxCalls - 1),
              e \in {<<Nil, IntV(5)>>, <<Nil, Nil>>, <<StrV("E"), Nil>>}}
    \cup {Nil, ArrV(<<IntV(3), IntV(0)>>)}

PeerSend(f) ==
    /\ sent < MaxFrames
    /\ ~inEOF
    /\ inbound' = Append(inbound, f)
    /\ sent' = sent + 1
    /\ UNCHANGED <<msgid, tasks, tasksPoisoned, writerOwner, writerPoisoned,
                   readerOwner, readerPoisoned, wbuf, out, outBroken, inEOF,
                   pc, myid, rtype, chan, ret, rpc, rreq, nread, notif>>
    /\ UNCHANGED <<yielded, cstate>>
    /\ UNCHANGED codecVars
    /\ UNCHANGED mainVars

\* the peer closes its end of the inbound stream
PeerClose ==
    /\ sent < MaxFrames
    /\ ~inEOF
    /\ inEOF' = TRUE
    /\ sent' = sent + 1
    /\ UNCHANGED <<msgid, tasks, tasksPoisoned, writerOwner, writerPoisoned,
                   readerOwner, readerPoisoned, wbuf, out, outBroken, inbound,
                   pc, myid, rtype, chan, ret, rpc, rreq, nread, notif>>
    /\ UNCHANGED <<yielded, cstate>>
    /\ UNCHANGED codecVars
    /\ UNCHANGED mainVars

\* the peer closes its end of the outbound stream
PeerBreakOut ==
    /\ ~outBroken
    /\ outBroken' = TRUE
    /\ UNCHANGED <<msgid, tasks, tasksPoisoned, writerOwner, writerPoisoned,
                   readerOwner, readerPoisoned, wbuf, out, inbound, inEOF,
                   sent, pc, myid, rtype, chan, ret, rpc, rreq, nread, notif>>
    /\ UNCHANGED <<yielded, cstate>>
    /\ UNCHANGED codecVars
    /\ UNCHANGED mainVars

(* ------------------------- codec round trip ---------------------------- *)
\* read_value on a stream: <<ok, value, rest>>. An array header is followed
\* by that many elements; anything else is a value on its own; a stream that
\* ends early is an error
ReadValue(stream) ==
    IF stream = <<>> THEN <<FALSE, Nil, stream>>
    ELSE IF Head(stream).k = "hdr"
         THEN IF Len(stream) >= 1 + Head(stream).v
              THEN <<TRUE, ArrV(SubSeq(stream, 2, 1 + Head(stream).v)),
                     SubSeq(stream, 2 + Head(stream).v, Len(stream))>>
              ELSE <<FALSE, Nil, <<>> >>
         ELSE <<TRUE, Head(stream), Tail(stream)>>

\* the Messages that are round-tripped
Messages ==
    {Request(id, m, p) : id \in {0, 1, 2147483647}, m \in {"", "nvim_eval"},
                         p \in {<<>>, <<Nil>>, <<IntV(2), StrV("a")>>}}
    \cup {Response(id, e, r) : id \in {0, 1, 2147483647}, e \in {Nil, StrV("E")},
                               r \in {Nil, IntV(5), ArrV(<<>>)}}
    \cup {Notify(m, p) : m \in {"", "tick"},
                         p \in {<<>>, <<Nil>>, <<IntV(2), StrV("a")>>}}

\* what may follow the frame on the stream: nothing, a stray value, the
\* frame of another message
Tails ==
    {<<>>, <<IntV(7)>>,
     Header(Encode(Notify("tick", <<>>))) \o Body(Encode(Notify("tick", <<>>)))}

\* a fresh client, never started, about to write one Message to a stream
\* that is read back
CodecInit ==
    /\ Fresh
    /\ NoMain
    /\ rpc = [r \in Readers |-> "unused"]
    /\ cmsg \in Messages
    /\ cstage = "write"
    /\ ctail \in Tails
    /\ cres = DecodeErr
    /\ crest = <<>>

\* Message::write_to, step by step
CodecWrite ==
    /\ cstage \in {"write", "write2", "flush"}
    /\ MaySucceed(cstage)
    /\ wbuf' = WriteStep(cstage, Encode(cmsg))[1]
    /\ out' = WriteStep(cstage, Encode(cmsg))[2]
    /\ cstage' = IF cstage = "flush" THEN "read" ELSE NextStage(cstage)
    /\ UNCHANGED <<msgid, tasks, tasksPoisoned, writerOwner, writerPoisoned,
                   readerOwner, readerPoisoned, outBroken, inbound, inEOF, sent,
                   pc, myid, rtype, chan, ret, rpc, rreq, nread, notif, yielded,
                   cstate, cmsg, ctail, cres, crest>>
    /\ UNCHANGED mainVars

\* Message::read_from on what was written, followed by the tail
CodecRead ==
    /\ cstage = "read"
    /\ LET got == ReadValue(out \o ctail)
       IN  /\ cres' = IF got[1] THEN ReadFrom(got[2]) ELSE DecodeErr
           /\ crest' = got[3]
    /\ cstage' = "done"
    /\ UNCHANGED <<msgid, tasks, tasksPoisoned, writerOwner, writerPoisoned,
                   readerOwner, readerPoisoned, wbuf, out, outBroken, inbound,
                   inEOF, sent, pc, myid, rtype, chan, ret, rpc, rreq, nread,
                   notif, yielded, cstate, cmsg, ctail>>
    /\ UNCHANGED mainVars

CodecNext == CodecWrite \/ CodecRead

CodecSpec == CodecInit /\ [][CodecNext]_vars

(* ----------------------- typed result conversion ----------------------- *)
\* the return types parse_vartype knows that have a conversion
AllRetTypes ==
    {"Object", "Integer", "String", "Boolean", "Array", "Dictionary", "void",
     "Buffer", "Window", "Tabpage"}

\* results a peer may put in a successful Response
Results ==
    {Nil, IntV(5), IntV(-1), StrV("a"), StrV(""), BoolV(TRUE), BoolV(FALSE),
     ArrV(<<>>), ArrV(<<IntV(1)>>), MapV(<<>>), MapV(<<<<StrV("a"), IntV(1)>>>>)}

\* the first call of a client waits in recv() with its reply delivered: the
\* Request went out under msgid 0, the reader took the Response with error e
\* and result x off the stream, removed the entry and sent the value
Replied(ty, e, x) ==
    /\ msgid = 1
    /\ tasks = [m \in {} |-> 0]
    /\ tasksPoisoned = FALSE
    /\ writerOwner = ByCall(1)
    /\ writerPoisoned = FALSE
    /\ readerOwner = 0
    /\ readerPoisoned = FALSE
    /\ wbuf = <<>>
    /\ out = Header(Encode(Request(0, "nvim_eval", <<>>)))
                \o Body(Encode(Request(0, "nvim_eval", <<>>)))
    /\ outBroken = FALSE
    /\ inbound = <<>>
    /\ inEOF = FALSE
    /\ sent = 1
    /\ pc = [k \in Calls |-> IF k = 1 THEN "recv" ELSE "idle"]
    /\ myid = [k \in Calls |-> 0]
    /\ rtype = [k \in Calls |-> IF k = 1 THEN ty ELSE "Object"]
    /\ chan = [k \in Calls |->
                 IF k = 1 THEN <<[res |-> Deliver(e, x), from |-> Response(0, e, x)]>>
                 ELSE <<>>]
    /\ ret = [k \in Calls |-> Err(Nil)]
    /\ rpc = [r \in Readers |-> IF r = 1 THEN "lock" ELSE "unused"]
    /\ rreq = [r \in Readers |-> 0]
    /\ nread = [r \in Readers |-> IF r = 1 THEN 1 ELSE 0]
    /\ notif = [r \in Readers |-> <<>>]
    /\ yielded = [r \in Readers |-> <<>>]
    /\ cstate = [r \in Readers |-> IF r = 1 THEN "held" ELSE "none"]

\* a method of any return type whose successful Response carries any result
ConvInit ==
    /\ \E ty \in AllRetTypes, x \in Results : Replied(ty, Nil, x)
    /\ NoCodec
    /\ NoMain

\* the call takes the reply and converts it
ConvNext == \E k \in Calls : CallRecv(k)

ConvSpec == ConvInit /\ [][ConvNext]_vars

(* -------------------------------- eval --------------------------------- *)
\* strings that eval works on are sequences of characters
Whitespace == {" "}
Quotes == {"'", "\""}

\* decimal digits of a natural number
RECURSIVE Dec(_)
Dec(n) ==
    LET d == <<"0", "1", "2", "3", "4", "5", "6", "7", "8", "9">>[(n % 10) + 1]
    IN  IF n < 10 THEN <<d>> ELSE Dec(n \div 10) \o <<d>>

\* Value::to_string: nil, true / false, decimal integers, a string between
\* double quotes, an array between brackets with ", " between its elements
RECURSIVE Render(_)
RECURSIVE RenderAll(_)
Render(x) ==
    CASE x.k = "nil" -> <<"n", "i", "l">>
      [] x.k = "bool" -> IF x.v THEN <<"t", "r", "u", "e">>
                         ELSE <<"f", "a", "l", "s", "e">>
      [] x.k = "int" -> IF x.v < 0 THEN <<"-">> \o Dec(0 - x.v) ELSE Dec(x.v)
      [] x.k = "str" -> <<"\"">> \o x.v \o <<"\"">>
      [] x.k = "arr" -> <<"[">> \o RenderAll(x.v) \o <<"]">>
RenderAll(xs) ==
    IF xs = <<>> THEN <<>>
    ELSE IF Len(xs) = 1 THEN Render(xs[1])
    ELSE Render(xs[1]) \o <<",", " ">> \o RenderAll(Tail(xs))

\* str::trim_matches: characters of the set are taken off both ends
RECURSIVE TrimStart(_, _)
TrimStart(s, set) ==
    IF s # <<>> /\ Head(s) \in set THEN TrimStart(Tail(s), set) ELSE s
RECURSIVE TrimEnd(_, _)
TrimEnd(s, set) ==
    IF s # <<>> /\ s[Len(s)] \in set THEN TrimEnd(SubSeq(s, 1, Len(s) - 1), set)
    ELSE s
TrimMatches(s, set) == TrimEnd(TrimStart(s, set), set)

\* variant: an error is rendered and handed to the caller
EvalLoud(res) ==
    IF res.ok THEN TrimMatches(TrimMatches(Render(res.val), Whitespace), Quotes)
    ELSE <<"E", "r", "r">>

\* NeovimClient::eval on what nvim_eval returned: v.to_string(), trim(),
\* trim_matches of the quotes; the empty string for an Err
Eval(res) ==
    IF res.ok THEN TrimMatches(TrimMatches(Render(res.val), Whitespace), Quotes)
    ELSE <<>>

\* the characters the evaluated strings are made of
EvalChars == {" ", "'", "\"", "a"}
\* the longest evaluated string
MaxStr == 3

\* what the peer may reply to nvim_eval: <<error, result>>
EvalReplies ==
    {<<Nil, StrV(cs)>> : cs \in UNION {[1..n -> EvalChars] : n \in 0..MaxStr}}
    \cup {<<Nil, x>> : x \in {Nil, IntV(5), IntV(-12), BoolV(TRUE), ArrV(<<>>),
                               ArrV(<<IntV(1), StrV(<<"a">>)>>)}}
    \cup {<<StrV(<<"E">>), Nil>>}

\* eval has called nvim_eval, whose reply has been delivered
EvalInit ==
    /\ \E e \in EvalReplies : Replied("Object", e[1], e[2])
    /\ NoMain
    /\ cmsg = DecodeErr
    /\ cstage = "eval"
    /\ ctail = <<>>
    /\ cres = <<>>
    /\ crest = <<>>

\* the match in eval on what nvim_eval returned
EvalReturn(k) ==
    /\ cstage = "eval"
    /\ pc[k] = "returned"
    /\ cres' = Eval(ret[k])
    /\ cstage' = "done"
    /\ UNCHANGED <<msgid, tasks, tasksPoisoned, writerOwner, writerPoisoned,
                   readerOwner, readerPoisoned, wbuf, out, outBroken, inbound,
                   inEOF, sent, pc, myid, rtype, chan, ret, rpc, rreq, nread,
                   notif, yielded, cstate, cmsg, ctail, crest>>
    /\ UNCHANGED mainVars

EvalNext == \E k \in Calls : CallRecv(k) \/ EvalReturn(k)

EvalSpec == EvalInit /\ [][EvalNext]_vars

(* ------------------------ read_from on any value ------------------------ *)
\* what the elements of an inbound array may be: the three tags, integers
\* that are no tag, a negative integer, a string, an array, Nil
Elems == {IntV(0), IntV(1), IntV(2), IntV(3), IntV(-1), StrV("m"), ArrV(<<>>), Nil}

\* the streams read_from is applied to: one value that is no array, an array
\* of up to maxlen elements, an array cut short, nothing at all
RawStreams(maxlen) ==
    {<<Nil>>, <<IntV(0)>>, <<StrV("m")>>, <<>>, <<[k |-> "hdr", v |-> 2], IntV(0)>>}
    \cup UNION {{<<[k |-> "hdr", v |-> n]>> \o s : s \in [1..n -> Elems]} :
                   n \in 0..maxlen}

\* a fresh client, never started, whose inbound stream holds one such value
DecodeInit ==
    /\ Fresh
    /\ NoMain
    /\ rpc = [r \in Readers |-> "unused"]
    /\ cmsg = DecodeErr
    /\ cstage = "read"
    /\ ctail \in RawStreams(MaxArity)
    /\ cres = DecodeErr
    /\ crest = <<>>

DecodeSpec == DecodeInit /\ [][CodecRead]_vars

(* --------------------------- PreviewerConfig --------------------------- *)
\* u16::MAX
U16_MAX == 65535
DecimalDigits == <<"0", "1", "2", "3", "4", "5", "6", "7", "8", "9">>
IsDigit(c) == \E i \in 1..10 : DecimalDigits[i] = c
DigitValue(c) == (CHOOSE i \in 1..10 : DecimalDigits[i] = c) - 1

\* the digit loop of str::parse::<u16>: a character that is no digit and a
\* value above u16::MAX are both an Err
RECURSIVE ParseDigits(_, _)
ParseDigits(acc, s) ==
    IF s = <<>> THEN Ok(acc)
    ELSE IF ~IsDigit(Head(s)) THEN Err("InvalidDigit")
    ELSE IF acc * 10 + DigitValue(Head(s)) > U16_MAX THEN Err("PosOverflow")
    ELSE ParseDigits(acc * 10 + DigitValue(Head(s)), Tail(s))

\* port.parse::<u16>(): one leading '+' is accepted, a '-' is not, and at
\* least one digit has to follow
ParseU16(s) ==
    LET digits == IF s # <<>> /\ Head(s) = "+" THEN Tail(s) ELSE s
    IN  IF s = <<>> THEN Err("Empty")
        ELSE IF digits = <<>> THEN Err("InvalidDigit")
        ELSE ParseDigits(0, digits)

\* variant: the port 1024 is taken as well
PreviewerConfigFrom1024(browser, port) ==
    LET b == TrimMatches(browser, Whitespace)
        v == ParseU16(TrimMatches(port, Whitespace))
    IN  [browser |-> IF b # <<>> THEN Some(b) ELSE None,
         port |-> IF v.ok /\ v.val >= 1024 THEN v.val ELSE DEFAULT_PORT]

\* PreviewerConfig::new
PreviewerConfigNew(browser, port) ==
    LET b == TrimMatches(browser, Whitespace)
        v == ParseU16(TrimMatches(port, Whitespace))
    IN  [browser |-> IF b # <<>> THEN Some(b) ELSE None,
         port |-> IF v.ok /\ v.val > 1024 THEN v.val ELSE DEFAULT_PORT]

\* the most leading zeros a port string is given
MaxZeros == 1
\* the numbers the port strings are written from
PortNumbers == {0, 1, 80, 1023, 1024, 1025, 3008, 8080, 65535, 65536, 70000, 99999}

\* the port strings: a number in decimal behind up to maxzeros zeros, with
\* or without a sign, something after it and blanks around it; and strings
\* that hold no number
PortStrings(maxzeros) ==
    {pre \o sign \o [i \in 1..z |-> "0"] \o Dec(n) \o junk \o post :
        pre \in {<<>>, <<" ">>}, sign \in {<<>>, <<"+">>, <<"-">>},
        z \in 0..maxzeros, n \in PortNumbers,
        junk \in {<<>>, <<"a">>, <<" ", "1">>}, post \in {<<>>, <<" ">>}}
    \cup {<<>>, <<" ">>, <<"+">>, <<" ", "+", " ">>, <<"a">>}

\* the browser strings: none, blanks, a name, a name between blanks, a
\* command with a blank inside
BrowserStrings ==
    {<<>>, <<" ">>, <<" ", " ">>, <<"f">>, <<" ", "f", " ">>, <<"f", " ", "x">>,
     <<" ", "f", " ", "x">>}

\* PreviewerConfig::new is about to be called on two strings
ConfigInit ==
    /\ Fresh
    /\ NoCodec
    /\ rpc = [r \in Readers |-> "unused"]
    /\ \E a \in [browser : BrowserStrings, port : PortStrings(MaxZeros)] :
          main = [args |-> a,
                  config |-> [browser |-> None, port |-> DEFAULT_PORT],
                  file |-> None, css |-> None, opened |-> <<>>,
                  printed |-> <<>>, pc |-> "new"]

\* the call of PreviewerConfig::new
ConfigNew ==
    /\ mpc = "new"
    /\ main' = [main EXCEPT !.config = PreviewerConfigNew(args.browser, args.port),
                            !.pc = "configured"]
    /\ UNCHANGED <<msgid, tasks, tasksPoisoned, writerOwner, writerPoisoned,
                   readerOwner, readerPoisoned, wbuf, out, outBroken, inbound,
                   inEOF, sent, pc, myid, rtype, chan, ret, rpc, rreq, nread,
                   notif, yielded, cstate>>
    /\ UNCHANGED codecVars

ConfigSpec == ConfigInit /\ [][ConfigNew]_vars

(* ------------------------------ main loop ------------------------------ *)
\* the most notifications waiting in the channel when the loop starts
MaxNotes == 2

\* Path::join of a directory and a relative file name: the separator is
\* added unless the directory is empty or ends with one. A path is the
\* sequence of its characters; a file name is kept in one piece.
Join(dir, name) ==
    IF dir = <<>> \/ dir[Len(dir)] = "/" THEN dir \o <<name>>
    ELSE dir \o <<"/", name>>

\* variant: the alternative style sheet is never picked
CssFileDefault(event) == "nvim-previewer-default.css"

\* the match on the event name
CssFile(event) ==
    IF event = "preview_alt" THEN "nvim-previewer-alt.css"
    ELSE "nvim-previewer-default.css"

\* variant: an array is taken for a string as well
StrOrArrAt(params, i) == Len(params) > i /\ (IsStr(params[i + 1]) \/ IsArr(params[i + 1]))

\* params.get(i).map(|x| x.as_str()...) is Some(Some(p)); i counts from 0
StrAt(params, i) == Len(params) > i /\ IsStr(params[i + 1])

\* the notifications the peer may have sent: <<event, params>>
Notes ==
    {<<e, p>> : e \in {"preview", "preview_alt", "refresh"},
                p \in {<<>>, <<Nil>>, <<IntV(1), StrV(<<"/", "p">>)>>,
                       <<ArrV(<<"a">>), StrV(<<"/", "p">>)>>,
                       <<StrV(<<"a">>)>>, <<StrV(<<"a">>), IntV(2)>>,
                       <<StrV(<<"a">>), StrV(<<"/", "p">>)>>,
                       <<StrV(<<"b">>), StrV(<<"p", "/">>), Nil>>,
                       <<StrV(<<>>), StrV(<<>>)>>}}

\* the frames of the Requests of the first n calls
RECURSIVE RequestFrames(_)
RequestFrames(n) ==
    IF n = 0 THEN <<>>
    ELSE RequestFrames(n - 1)
            \o Header(Encode(Request(n - 1, "nvim_eval", <<>>)))
            \o Body(Encode(Request(n - 1, "nvim_eval", <<>>)))

\* main has built the Previewer (start() called once, every eval returned)
\* and reached its loop; the reader thread has queued some notifications;
\* the configuration is the default one or names a browser and a port
MainInit ==
    /\ msgid = MaxCalls
    /\ tasks = [m \in {} |-> 0]
    /\ tasksPoisoned = FALSE
    /\ writerOwner = Free
    /\ writerPoisoned = FALSE
    /\ readerOwner = 0
    /\ readerPoisoned = FALSE
    /\ wbuf = <<>>
    /\ out = RequestFrames(MaxCalls)
    /\ outBroken = FALSE
    /\ inbound = <<>>
    /\ inEOF = FALSE
    /\ pc = [k \in Calls |-> "returned"]
    /\ myid = [k \in Calls |-> k - 1]
    /\ rtype = [k \in Calls |-> "Object"]
    /\ chan = [k \in Calls |->
                 <<[res |-> Deliver(Nil, Nil), from |-> Response(k - 1, Nil, Nil)]>>]
    /\ ret = [k \in Calls |-> Ok(Nil)]
    /\ rpc = [r \in Readers |-> IF r = 1 THEN "lock" ELSE "unused"]
    /\ rreq = [r \in Readers |-> 0]
    /\ \E q \in UNION {[1..n -> Notes] : n \in 0..MaxNotes} :
          /\ notif = [r \in Readers |-> IF r = 1 THEN q ELSE <<>>]
          /\ nread = [r \in Readers |-> IF r = 1 THEN MaxCalls + Len(q) ELSE 0]
          /\ sent = MaxCalls + Len(q)
    /\ yielded = [r \in Readers |-> <<>>]
    /\ cstate = [r \in Readers |-> IF r = 1 THEN "held" ELSE "none"]
    /\ NoCodec
    /\ \E a \in {[browser |-> <<>>, port |-> <<>>],
                  [browser |-> <<"f">>, port |-> Dec(8080)]} :
          main = [args |-> a,
                  config |-> PreviewerConfigNew(a.browser, a.port),
                  file |-> None, css |-> None, opened |-> <<>>,
                  printed |-> <<>>, pc |-> "recv"]

\* what no turn of the loop changes: the client, apart from the channel the
\* loop reads from
MainFrame ==
    /\ UNCHANGED <<msgid, tasks, tasksPoisoned, writerOwner, writerPoisoned,
                   readerOwner, readerPoisoned, wbuf, out, outBroken, inbound,
                   inEOF, sent, pc, myid, rtype, chan, ret, rpc, rreq, nread,
                   cstate>>
    /\ UNCHANGED codecVars

\* the Receiver of Previewer.recv() yields the head of the queue
MainTake ==
    /\ mpc = "recv"
    /\ cstate[1] = "held"
    /\ notif[1] # <<>>
    /\ yielded' = [yielded EXCEPT ![1] = Append(@, Head(notif[1]))]
    /\ notif' = [notif EXCEPT ![1] = Tail(@)]

\* a turn of the loop for a notification without a string at params[0]:
\* the message is handed to Previewer::print and the turn ends
MainNoFile ==
    /\ MainTake
    /\ ~StrAt(Head(notif[1])[2], 0)
    /\ main' = [main EXCEPT !.printed = Append(@, "no file to be previewed"),
                            !.pc = "print"]
    /\ MainFrame

\* a turn for a notification with a string at params[0] and none at
\* params[1]: the file path is stored, then the message is printed
MainNoScriptDir ==
    /\ MainTake
    /\ StrAt(Head(notif[1])[2], 0)
    /\ ~StrAt(Head(notif[1])[2], 1)
    /\ main' = [main EXCEPT
                    !.file = Some(Head(notif[1])[2][1].v),
                    !.printed =
                        Append(@, "failed to find nvim-previewer plugin directory"),
                    !.pc = "print"]
    /\ MainFrame

\* a turn for a notification with strings at params[0] and params[1]: both
\* paths are stored and Previewer::preview launches the browser, with the
\* configured one or the system's; a failed launch is printed
MainPreview ==
    /\ MainTake
    /\ StrAt(Head(notif[1])[2], 0)
    /\ StrAt(Head(notif[1])[2], 1)
    /\ \E launched \in BOOLEAN :
          main' = [main EXCEPT
                      !.file = Some(Head(notif[1])[2][1].v),
                      !.css = Some(Join(Head(notif[1])[2][2].v,
                                        CssFile(Head(notif[1])[1]))),
                      !.opened = Append(@, [port |-> config.port,
                                            browser |-> config.browser]),
                      !.printed = IF launched THEN @
                                  ELSE Append(@, "failed to start browser"),
                      !.pc = IF launched THEN "recv" ELSE "print"]
    /\ MainFrame

\* Previewer::print is one call of nvim_command, whose result is dropped:
\* the call returns
MainPrinted ==
    /\ mpc = "print"
    /\ main' = [main EXCEPT !.pc = "recv"]
    /\ UNCHANGED <<notif, yielded>>
    /\ MainFrame

\* or the call never returns, or panics (a reply that never comes, a write
\* that fails), and the loop goes no further
MainPrintLost ==
    /\ mpc = "print"
    /\ \E lost \in {"blocked", "panicked"} : main' = [main EXCEPT !.pc = lost]
    /\ UNCHANGED <<notif, yielded>>
    /\ MainFrame

MainNext ==
    \/ MainNoFile \/ MainNoScriptDir \/ MainPreview
    \/ MainPrinted \/ MainPrintLost

MainSpec == MainInit /\ [][MainNext]_vars

(* ---------------------------- specification ---------------------------- *)
CallStep == \E k \in Calls :
    CallBegin(k) \/ CallInsert(k) \/ CallLockWriter(k) \/ CallWrite(k) \/ CallRecv(k)
ReaderStep == \E r \in Readers :
    \/ Start(r) \/ ReaderLock(r) \/ ReaderReadError(r) \/ ReaderHandleRequest(r)
    \/ ReaderRespLock(r) \/ ReaderRespWrite(r) \/ ReaderHandleResponse(r)
    \/ ReaderHandleNotify(r)
ConsumerStep == \E r \in Readers :
    ConsumerRecv(r) \/ ConsumerEnd(r) \/ ConsumerDrop(r)
PeerStep == (\E f \in PeerFrames : PeerSend(f)) \/ PeerClose \/ PeerBreakOut

Next == CallStep \/ ReaderStep \/ ConsumerStep \/ PeerStep

Spec == Init /\ [][Next]_vars

\* the same client when start() is called twice
StartsSpec == InitStarts /\ [][Next]_vars

\* threads that can run are scheduled; the peer owes nothing
FairSpec ==
    /\ Spec
    /\ \A k \in Calls :
          /\ WF_vars(CallInsert(k)) /\ WF_vars(CallLockWriter(k))
          /\ WF_vars(CallWrite(k)) /\ WF_vars(CallRecv(k))
    /\ \A r \in Readers :
          /\ WF_vars(ReaderLock(r)) /\ WF_vars(ReaderReadError(r))
          /\ WF_vars(ReaderHandleRequest(r)) /\ WF_vars(ReaderRespLock(r))
          /\ WF_vars(ReaderRespWrite(r)) /\ WF_vars(ReaderHandleResponse(r))
          /\ WF_vars(ReaderHandleNotify(r))

(* ======================================================================= *)
(* Properties                                                              *)
(* ======================================================================= *)

\* a call that is blocked in receiver.recv() with nothing to receive
Waiting(k) == pc[k] = "recv" /\ chan[k] = <<>>
\* no mutex of the Client is poisoned
Healthy == ~tasksPoisoned /\ ~writerPoisoned /\ ~readerPoisoned

\* C1: in no reachable state is a caller blocked waiting for its reply while
\* it still holds the writer lock (the writer is released before the wait).
C1_WriterReleasedBeforeWait ==
    \A k \in Calls : Waiting(k) => writerOwner # ByCall(k)

\* the peer has queued an inbound Request followed by the Response to call k,
\* which is waiting; the reader thread is at the top of its loop
RequestThenReply(k) ==
    /\ Waiting(k)
    /\ Healthy
    /\ myid[k] \in DOMAIN tasks /\ tasks[myid[k]] = k
    /\ \E r \in Readers : rpc[r] \in {"lock", "read"}
    /\ Len(inbound) = 2
    /\ ReadFrom(inbound[1]).t = "Request"
    /\ ReadFrom(inbound[2]).t = "Response"
    /\ ReadFrom(inbound[2]).msgid = myid[k]

\* C2: no deadlock between a caller and the reader loop: when the peer sends
\* an inbound Request while a call waits for its reply, and then the Response
\* with that call's msgid, the reader answers the Request, reads the Response
\* and the call eventually returns (here: unless the outbound pipe breaks).
C2_NoCallerReaderDeadlock ==
    \A k \in Calls : RequestThenReply(k) ~> (pc[k] = "returned" \/ outBroken)

\* C3: when the reader loop has terminated while a call is pending, the call
\* eventually returns an error; it does not stay blocked forever.
C3_ShutdownReleasesWaiters ==
    \A k \in Calls :
        (Waiting(k) /\ \A r \in Readers : rpc[r] \in {"done", "unused"})
            ~> (pc[k] = "returned" /\ ~ret[k].ok)

\* reader r is about to handle a Response whose msgid has no table entry
UnmatchedResponse(r) ==
    /\ rpc[r] = "read"
    /\ inbound # <<>>
    /\ Decoded.t = "Response"
    /\ Decoded.msgid \notin DOMAIN tasks
    /\ Healthy

\* C4: a Response whose msgid has no entry in the pending-call table is
\* dropped: the step that handles it leaves the table unchanged and the
\* reader loop running (back at the top of the loop, nothing poisoned).
C4_UnmatchedResponseDropped ==
    [][\A r \in Readers :
          (UnmatchedResponse(r) /\ nread'[r] # nread[r])
              => (rpc'[r] = "lock" /\ tasks' = tasks /\ Healthy')]_vars

\* the Response that was delivered to call k (call k has received one)
ReplyOf(k) == chan[k][1].from

\* C5: the value each call returns comes from the Response whose msgid
\* equals the msgid of that call's own Request: every value in a call's reply
\* slot was produced from a Response bearing the call's msgid, and a call that
\* returned did so with what that Response yields.
C5_OwnReply ==
    \A k \in Calls :
        /\ \A i \in 1..Len(chan[k]) :
              /\ chan[k][i].from.msgid = myid[k]
              /\ chan[k][i].res = Deliver(chan[k][i].from.error, chan[k][i].from.result)
        /\ pc[k] = "returned" =>
              /\ chan[k] # <<>>
              /\ ret[k] = CallResult(rtype[k], <<chan[k][1]>>)
C5_Witness ==
    \E j, k \in Calls :
        /\ j # k
        /\ pc[j] = "returned" /\ pc[k] = "returned"
        /\ ret[j].ok /\ ~ret[k].ok
        /\ ReplyOf(j).msgid # ReplyOf(k).msgid

\* the native value a typed wrapper returned carries the wire value x
SameValue(native, x) ==
    \/ native = x
    \/ native.k = "i64" /\ x.k = "int" /\ native.v = x.v

\* C6 as stated: a call returns Ok(result) exactly when the Response carrying
\* its msgid has a Nil error field, result being that Response's result; when
\* the error is not Nil it returns an error built from that error value.
C6_OkIffNilError ==
    \A k \in Calls : pc[k] = "returned" /\ chan[k] # <<>> =>
        /\ ret[k].ok <=> ReplyOf(k).error = Nil
        /\ ret[k].ok => SameValue(ret[k].val, ReplyOf(k).result)
        /\ ReplyOf(k).error # Nil => ret[k] = Err(Dirty(Dirty(ReplyOf(k).error)))

\* C6 amended: a call returns Ok exactly when the Response carrying its msgid
\* has a Nil error field and its result converts to the declared return type
\* of the method; the value is then that conversion of the result (the result
\* itself for a method returning Object). With a non-Nil error it returns an
\* error built from that error value, and with a Nil error and a result that
\* does not convert, the conversion's error.
C6_OkIffNilErrorAndConverts ==
    \A k \in Calls : pc[k] = "returned" /\ chan[k] # <<>> =>
        LET f == ReplyOf(k)
            conv == TryValueInto(rtype[k], f.result)
        IN  /\ ret[k].ok <=> (f.error = Nil /\ conv.ok)
            /\ ret[k].ok => ret[k].val = conv.val /\ SameValue(ret[k].val, f.result)
            /\ rtype[k] = "Object" /\ f.error = Nil => ret[k] = Ok(f.result)
            /\ f.error # Nil => ret[k] = Err(Dirty(Dirty(f.error)))
            /\ f.error = Nil /\ ~conv.ok => ret[k] = conv
C6_Witness ==
    \E k \in Calls :
        /\ pc[k] = "returned" /\ chan[k] # <<>>
        /\ ReplyOf(k).error = Nil
        /\ rtype[k] = "Integer"
        /\ ~ret[k].ok

\* a call that has taken its msgid
Begun(k) == pc[k] # "idle"

\* C7: no two calls on the Client have the same msgid while either is
\* pending (no two calls that have begun share one), and every call gets at
\* most one value in its reply slot, exactly one when it has returned.
C7_UniqueMsgidOneReply ==
    /\ \A j, k \in Calls : Begun(j) /\ Begun(k) /\ j # k => myid[j] # myid[k]
    /\ \A k \in Calls :
          /\ Len(chan[k]) <= 1
          /\ pc[k] = "returned" => Len(chan[k]) = 1
C7_Witness ==
    \E j, k \in Calls :
        /\ j # k
        /\ pc[j] = "returned" /\ Len(chan[j]) = 1
        /\ pc[k] = "recv" /\ Len(chan[k]) = 1
        /\ sent = MaxFrames /\ inbound = <<>>

\* C8: pipelining: two calls can have their Requests outstanding at the same
\* time, so while one call waits for its reply the next invocation can start
\* and put its own Request on the stream.
C8_Pipelining ==
    \A k \in Calls :
        (k + 1 \in Calls /\ Waiting(k) /\ Healthy /\ pc[k + 1] = "idle")
            => ENABLED CallBegin(k + 1)

\* the byte sequence is a run of complete frames (a header announcing n
\* elements, then n elements) followed by at most a prefix of one frame;
\* every complete frame decodes to a Request or a Response
RECURSIVE Framed(_)
Framed(s) ==
    IF s = <<>> THEN TRUE
    ELSE /\ s[1].k = "hdr"
         /\ LET n == s[1].v IN
            IF Len(s) >= n + 1
            THEN /\ \A i \in 2..(n + 1) : s[i].k # "hdr"
                 /\ ReadFrom(ArrV(SubSeq(s, 2, n + 1))).t \in {"Request", "Response"}
                 /\ Framed(SubSeq(s, n + 2, Len(s)))
            ELSE \A i \in 2..Len(s) : s[i].k # "hdr"

\* C9: frames on the outbound stream never interleave: what has reached the
\* peer is a run of complete frames, and the bytes still buffered continue it
\* with at most one further frame in progress.
C9_FramesNeverInterleave ==
    /\ Framed(out \o wbuf)
    /\ Framed(out)
    /\ Len(wbuf) <= 5
C9_Witness ==
    /\ \E i \in 1..Len(out) : out[i] = IntV(0)
    /\ \E i \in 1..Len(out) : out[i] = IntV(1)
    /\ wbuf # <<>>

\* C10: any failure of read_from terminates the reader loop: the step that
\* gets the failure ends the loop, and a loop that has ended never runs again
\* and takes no later frame off the inbound stream.
C10_ReadFailureTerminates ==
    [][\A r \in Readers :
          /\ (rpc[r] = "read" /\ Readable /\ Decoded.t = "Err" /\ rpc'[r] # rpc[r])
                => rpc'[r] = "done"
          /\ rpc[r] = "done" => (rpc'[r] = "done" /\ nread'[r] = nread[r])]_vars
C10_Witness ==
    \E r \in Readers :
        /\ rpc[r] = "done"
        /\ nread[r] = 1
        /\ inbound # <<>>
        /\ ~inEOF

\* C11: when writing the canned Response to an inbound Request fails, the
\* failure is only logged and the reader loop continues: the step in which
\* the write fails takes the loop back to its top with no mutex poisoned.
C11_CannedWriteFailureLogged ==
    [][\A r \in Readers :
          (rpc[r] = "flush" /\ outBroken /\ Healthy /\ rpc'[r] # rpc[r])
              => (rpc'[r] = "lock" /\ Healthy')]_vars

\* C12: when writing the Request fails inside a call, that invocation returns
\* an error to its caller and the writer stays usable: the step in which the
\* write fails ends the call with an Err result, the writer mutex free and
\* not poisoned.
C12_RequestWriteFailureReturned ==
    [][\A k \in Calls :
          (pc[k] = "flush" /\ outBroken /\ Healthy /\ pc'[k] # pc[k])
              => (pc'[k] = "returned" /\ ~ret'[k].ok
                  /\ writerOwner' = Free /\ Healthy')]_vars

\* reader r is about to handle a Response with a non-Nil error for a msgid
\* that has a table entry
ErrorResponse(r) ==
    /\ rpc[r] = "read"
    /\ inbound # <<>>
    /\ Decoded.t = "Response"
    /\ Decoded.error # Nil
    /\ Decoded.msgid \in DOMAIN tasks
    /\ ~tasksPoisoned

\* C13: a Response with a non-Nil error fails only the call with that msgid:
\* the step that handles it hands an Err to that call alone, removes that
\* entry alone, leaves every other call and every mutex as it was, and the
\* reader loop goes back to the top of its loop.
C13_ErrorResponseIsLocal ==
    [][\A r \in Readers :
          (ErrorResponse(r) /\ nread'[r] # nread[r]) =>
              LET id == Decoded.msgid
                  k == tasks[id]
              IN  /\ rpc'[r] = "lock"
                  /\ DOMAIN tasks' = DOMAIN tasks \ {id}
                  /\ \A m \in DOMAIN tasks' : tasks'[m] = tasks[m]
                  /\ \A j \in Calls \ {k} : chan'[j] = chan[j]
                  /\ RxAlive(k) => /\ Len(chan'[k]) = Len(chan[k]) + 1
                                   /\ ~chan'[k][Len(chan'[k])].res.ok
                  /\ pc' = pc
                  /\ tasksPoisoned' = tasksPoisoned
                  /\ writerPoisoned' = writerPoisoned
                  /\ readerPoisoned' = readerPoisoned]_vars
C13_Witness ==
    \E j, k \in Calls :
        /\ j < k
        /\ pc[j] = "returned" /\ ReplyOf(j).error # Nil /\ ~ret[j].ok
        /\ pc[k] = "returned" /\ ret[k].ok

\* C18: pending-call table invariant: every key is the msgid of a call that
\* registered it, has not returned and has no reply delivered; a call past
\* registration that has no reply yet still has its entry (it is removed only
\* when the Response with its msgid is handled).
C18_PendingTableInvariant ==
    /\ \A m \in DOMAIN tasks :
          LET k == tasks[m] IN
          /\ myid[k] = m
          /\ pc[k] \notin {"idle", "insert", "returned"}
          /\ chan[k] = <<>>
    /\ \A k \in Calls :
          (pc[k] \in {"lock", "write", "write2", "flush", "recv"} /\ chan[k] = <<>>)
              => (myid[k] \in DOMAIN tasks /\ tasks[myid[k]] = k)
C18_Witness ==
    \E j, k \in Calls :
        /\ pc[j] = "returned"
        /\ pc[k] = "recv"
        /\ DOMAIN tasks = {myid[k]}

\* the head of the inbound stream decodes as a Notify and reader r is at its read
NotifyAtHead(r) ==
    /\ rpc[r] = "read"
    /\ inbound # <<>>
    /\ Decoded.t = "Notify"

\* C14: the notification sequence is exactly the decoded Notify messages,
\* each once and in arrival order: what the Receiver has yielded followed by
\* what is still queued grows only when the reader takes a Notify off the
\* stream, and then by that Notify's (method, params) at the back; the
\* Receiver yields the front of the queue.
C14_NotificationsInArrivalOrder ==
    [][\A r \in Readers :
          cstate'[r] # "dropped" =>
              /\ yielded'[r] \o notif'[r] =
                     IF NotifyAtHead(r) /\ nread'[r] # nread[r]
                     THEN Append(yielded[r] \o notif[r],
                                 <<Decoded.method, Decoded.params>>)
                     ELSE yielded[r] \o notif[r]
              /\ yielded'[r] # yielded[r] =>
                     yielded'[r] = Append(yielded[r], Head(notif[r]))]_vars
\* two different notifications were yielded before any call was made
C14_Witness ==
    \E r \in Readers :
        /\ Len(yielded[r]) = 2
        /\ yielded[r][1] # yielded[r][2]
        /\ \A k \in Calls : pc[k] = "idle"

\* C15: forwarding a Notify never blocks the reader loop, whatever the
\* consumer does (slow, not reading, Receiver dropped): the step is always
\* possible, and it takes the loop back to its top with the reader mutex
\* released and no mutex poisoned.
C15_ForwardNeverBlocks ==
    [][\A r \in Readers :
          NotifyAtHead(r) =>
              /\ ENABLED ReaderHandleNotify(r)
              /\ nread'[r] # nread[r] =>
                     /\ rpc'[r] = "lock"
                     /\ readerOwner' = 0
                     /\ Healthy' = Healthy]_vars
\* two values are queued with none taken, and the loop is back at its top
C15_Witness ==
    \E r \in Readers :
        /\ Len(notif[r]) = 2
        /\ yielded[r] = <<>>
        /\ rpc[r] = "lock"

\* reader thread r has ended
Terminated(r) == rpc[r] \in {"done", "panicked"}

\* C16: once the reader loop has terminated the notification sequence gets
\* no new values, and a consumer that has drained it sees its end: with
\* values queued the Receiver yields one, with none the iteration ends.
C16_SequenceEndsAfterReader ==
    [][\A r \in Readers :
          (Terminated(r) /\ cstate[r] = "held") =>
              /\ cstate'[r] # "dropped" =>
                     yielded'[r] \o notif'[r] = yielded[r] \o notif[r]
              /\ notif[r] # <<>> => ENABLED ConsumerRecv(r)
              /\ notif[r] = <<>> => ENABLED ConsumerEnd(r)]_vars
\* the consumer drained a value after the thread ended, then saw the end
C16_Witness ==
    \E r \in Readers :
        /\ cstate[r] = "ended"
        /\ yielded[r] # <<>>
        /\ Terminated(r)

\* C17: every inbound Request is answered: once the reader has taken a
\* Request off the stream it eventually has written the canned Response and
\* is back at the top of its loop (here: unless the outbound pipe breaks).
C17_EveryRequestAnswered ==
    \A r \in Readers : (rpc[r] = "resp_lock") ~> (rpc[r] = "lock" \/ outBroken)

\* reader thread r has been spawned and has not ended
Running(r) == rpc[r] \notin {"unused", "unstarted", "done", "panicked"}

\* C19: whatever the sequence of start() invocations, at every moment at
\* most one background reader consumes the inbound stream: no two reader
\* threads that have each taken frames off the stream are running together.
C19_AtMostOneReader ==
    \A r1, r2 \in Readers :
        (Running(r1) /\ Running(r2) /\ nread[r1] > 0 /\ nread[r2] > 0) => r1 = r2

\* C20: codec round trip: read_from applied to what write_to produced
\* returns a Message equal to the one written (empty params, Nil error and
\* Nil result included) and leaves on the stream exactly what followed the
\* frame.
C20_CodecRoundTrip ==
    cstage = "done" => (cres = cmsg /\ crest = ctail)
\* a Response with Nil error and a non-Nil result came back, with a frame
\* following it left on the stream
C20_Witness ==
    /\ cstage = "done"
    /\ cmsg.t = "Response" /\ cmsg.error = Nil /\ cmsg.result # Nil
    /\ cmsg.msgid = 2147483647
    /\ Len(ctail) > 1

\* the value is not a well-formed message array: not an array, no integer
\* tag, a tag outside 0..2, or a field of the tag missing or of the wrong kind
Malformed(x) ==
    \/ x.k # "arr"
    \/ Len(x.v) = 0
    \/ x.v[1].k # "int"
    \/ x.v[1].v \notin {0, 1, 2}
    \/ /\ x.v[1].v = 0
       /\ \/ Len(x.v) < 4
          \/ ~(x.v[2].k = "int" /\ x.v[2].v >= 0)
          \/ x.v[3].k # "str"
          \/ x.v[4].k # "arr"
    \/ /\ x.v[1].v = 1
       /\ \/ Len(x.v) < 4
          \/ ~(x.v[2].k = "int" /\ x.v[2].v >= 0)
    \/ /\ x.v[1].v = 2
       /\ \/ Len(x.v) < 3
          \/ x.v[2].k # "str"
          \/ x.v[3].k # "arr"

\* C21: read_from returns an error, never a Message, for every decoded
\* value that is not an array, has no integer tag, has a tag outside 0..2,
\* or lacks a field its tag requires or has it of the wrong kind.
C21_MalformedIsRejected ==
    (cstage = "done" /\ ReadValue(ctail)[1] /\ Malformed(ReadValue(ctail)[2]))
        => cres = DecodeErr
\* a Response of three elements, or a Request with a negative msgid, was
\* read and rejected
C21_Witness ==
    /\ cstage = "done"
    /\ cres = DecodeErr
    /\ ctail \in {<<[k |-> "hdr", v |-> 3], IntV(1), IntV(0), Nil>>,
                  <<[k |-> "hdr", v |-> 4], IntV(0), IntV(-1), StrV("m"), ArrV(<<>>)>>}

\* C22: write_to encodes each Message as one top-level array, the tag first
\* and the fields in their fixed order, with no other elements: Request as
\* [0, msgid, method, params], Response as [1, msgid, error, result], Notify
\* as [2, method, params].
C22_PositionalLayout ==
    cstage \in {"read", "done"} =>
        out = CASE cmsg.t = "Request" ->
                     <<[k |-> "hdr", v |-> 4], IntV(0), IntV(cmsg.msgid),
                       StrV(cmsg.method), ArrV(cmsg.params)>>
                [] cmsg.t = "Response" ->
                     <<[k |-> "hdr", v |-> 4], IntV(1), IntV(cmsg.msgid),
                       cmsg.error, cmsg.result>>
                [] cmsg.t = "Notify" ->
                     <<[k |-> "hdr", v |-> 3], IntV(2), StrV(cmsg.method),
                       ArrV(cmsg.params)>>
\* a Notify with params and a Response with a non-Nil error were written
C22_Witness ==
    /\ cstage = "read"
    /\ \/ cmsg.t = "Notify" /\ cmsg.params # <<>>
       \/ cmsg.t = "Response" /\ cmsg.error # Nil /\ cmsg.result # Nil

\* the variant a typed wrapper declares, for the types that have one
VariantOf(ty) ==
    CASE ty = "Integer" -> "int"
      [] ty = "String" -> "str"
      [] ty = "Boolean" -> "bool"
      [] ty = "Array" -> "arr"
      [] ty = "Dictionary" -> "map"

\* C23: typed result conversion is fallible and never coerces: a successful
\* Response whose result is not of the variant the wrapper declares (integer,
\* string, bool, array, map) makes the call return an error, and the call
\* returns Ok only with the value of the Response, of the declared variant.
C23_ConversionNeverCoerces ==
    \A k \in Calls :
        (/\ pc[k] = "returned"
         /\ rtype[k] \in {"Integer", "String", "Boolean", "Array", "Dictionary"}
         /\ ReplyOf(k).error = Nil)
            => /\ ReplyOf(k).result.k # VariantOf(rtype[k]) => ~ret[k].ok
               /\ ret[k].ok => /\ ReplyOf(k).result.k = VariantOf(rtype[k])
                               /\ ret[k].val.v = ReplyOf(k).result.v
\* an Integer wrapper refused a string, and a Dictionary wrapper took a map
C23_Witness ==
    \E k \in Calls :
        /\ pc[k] = "returned"
        /\ \/ rtype[k] = "Integer" /\ ReplyOf(k).result = StrV("a") /\ ~ret[k].ok
           \/ rtype[k] = "Dictionary" /\ ReplyOf(k).result.k = "map" /\ ret[k].ok

\* r is s with the characters of the set removed from both ends
Stripped(r, s, set) ==
    \E i \in 1..(Len(s) + 1) : \E j \in (i - 1)..Len(s) :
        /\ r = SubSeq(s, i, j)
        /\ \A n \in 1..(i - 1) : s[n] \in set
        /\ \A n \in (j + 1)..Len(s) : s[n] \in set
        /\ r # <<>> => (r[1] \notin set /\ r[Len(r)] \notin set)

\* C24: eval never reports an error: when nvim_eval returned an error eval
\* returns the empty string, and otherwise it returns the result rendered
\* as a string, with surrounding whitespace removed and then surrounding
\* single and double quotes removed.
C24_EvalNeverFails ==
    \A k \in Calls :
        (cstage = "done" /\ pc[k] = "returned") =>
            IF ~ret[k].ok THEN cres = <<>>
            ELSE \E a \in 0..Len(Render(ret[k].val)) :
                 \E b \in a..Len(Render(ret[k].val)) :
                     LET mid == SubSeq(Render(ret[k].val), a + 1, b)
                     IN  /\ Stripped(mid, Render(ret[k].val), Whitespace)
                         /\ Stripped(cres, mid, Quotes)
\* a remote error gave the empty string, or a quoted string lost its quotes
C24_Witness ==
    \E k \in Calls :
        /\ cstage = "done"
        /\ pc[k] = "returned"
        /\ \/ ~ret[k].ok /\ ReplyOf(k).error # Nil /\ cres = <<>>
           \/ ret[k].ok /\ ret[k].val = StrV(<<"'", "a", "'">>) /\ cres = <<"a">>

\* call k has locked the writer and not yet returned
Sending(k) == pc[k] \in {"write", "write2", "flush", "recv"}

C27_CounterCountsCalls ==
    /\ msgid = Cardinality({k \in Calls : Begun(k)})
    /\ \A k \in Calls : Begun(k) => myid[k] = k - 1
\* a call that failed or panicked is followed by a call with the next msgid
C27_Witness ==
    \E j, k \in Calls :
        /\ k = j + 1
        /\ pc[j] = "panicked" \/ (pc[j] = "returned" /\ ~ret[j].ok)
        /\ Begun(k)
        /\ myid[k] = j
        /\ msgid = k

\* C29: calls on one Client are fully serialized: a call holds the writer
\* lock from before it writes its Request until it returns, no second call
\* writes while it does, and the pending-call table never holds more than
\* one entry of a call that is still waiting.
C29_CallsSerialized ==
    /\ \A k \in Calls : Sending(k) => writerOwner = ByCall(k)
    /\ \A j, k \in Calls : (Sending(j) /\ Sending(k)) => j = k
    /\ Cardinality({m \in DOMAIN tasks :
                        pc[tasks[m]] \in {"lock", "write", "write2", "flush", "recv"}}) <= 1
\* a second call waits for its reply, holding the writer, after the first returned
C29_Witness ==
    \E j, k \in Calls :
        /\ pc[j] = "returned"
        /\ Waiting(k)
        /\ writerOwner = ByCall(k)
        /\ DOMAIN tasks = {myid[k]}
        /\ \E r \in Readers : rpc[r] = "resp_lock"

\* C30: frame conditions of the reader loop: handling an inbound Request or
\* a Notify leaves the pending-call table unchanged, and handling a Response
\* with msgid m removes at most the entry for m and leaves every other
\* entry unchanged.
C30_ReaderFrameConditions ==
    [][\A r \in Readers :
          (rpc[r] = "read" /\ inbound # <<>> /\ nread'[r] # nread[r]) =>
              /\ Decoded.t \in {"Request", "Notify"} => tasks' = tasks
              /\ Decoded.t = "Response" =>
                     /\ DOMAIN tasks \ {Decoded.msgid} \subseteq DOMAIN tasks'
                     /\ DOMAIN tasks' \subseteq DOMAIN tasks
                     /\ \A m \in DOMAIN tasks' : tasks'[m] = tasks[m]]_vars
\* a reply was delivered to one call while the entry of another stayed
C30_Witness ==
    \E j, k \in Calls :
        /\ j # k
        /\ chan[k] # <<>>
        /\ myid[k] \notin DOMAIN tasks
        /\ myid[j] \in DOMAIN tasks /\ tasks[myid[j]] = j

\* C26: a call issued after the reader loop has terminated returns an error
\* instead of blocking forever (here: unless the outbound pipe breaks).
C26_CallAfterShutdownReturns ==
    \A k \in Calls :
        (pc[k] = "insert" /\ Healthy /\ \A r \in Readers : rpc[r] \in {"done", "unused"})
            ~> ((pc[k] = "returned" /\ ~ret[k].ok) \/ outBroken)

\* C28: when write_to returns Ok the whole frame has been flushed: nothing
\* of it is left in the writer's buffer and the peer reads the complete
\* frame, and nothing more, from what has reached it.
C28_FlushedOnReturn ==
    cstage \in {"read", "done"} =>
        /\ wbuf = <<>>
        /\ ReadValue(out) = <<TRUE, Encode(cmsg), <<>> >>
\* write_to has returned for a Request with params
C28_Witness ==
    /\ cstage = "read"
    /\ cmsg.t = "Request"
    /\ cmsg.params # <<>>
    /\ Len(out) = 5

\* the number a string of decimal digits denotes
RECURSIVE NumberOf(_)
NumberOf(d) ==
    IF d = <<>> THEN 0
    ELSE 10 * NumberOf(SubSeq(d, 1, Len(d) - 1)) + DigitValue(d[Len(d)])

\* s is a decimal numeral, with or without a '+' before it, of a number
\* that an unsigned 16-bit integer can hold
IsU16Numeral(s) ==
    \E d \in {s} \cup (IF s # <<>> /\ s[1] = "+" THEN {Tail(s)} ELSE {}) :
        /\ d # <<>>
        /\ \A i \in 1..Len(d) : IsDigit(d[i])
        /\ NumberOf(d) <= U16_MAX

\* C31: PreviewerConfig::new(browser, port) yields the number the trimmed
\* port string denotes when that string parses as an unsigned 16-bit integer
\* above 1024, and the default port 3008 in every other case; browser is None
\* exactly when the trimmed browser string is empty (and the trimmed string
\* otherwise).
C31_ConfigFromStrings ==
    mpc = "configured" =>
        \E b \in {SubSeq(args.browser, i, j) :
                     i \in 1..(Len(args.browser) + 1), j \in 0..Len(args.browser)} :
        \E p \in {SubSeq(args.port, i, j) :
                     i \in 1..(Len(args.port) + 1), j \in 0..Len(args.port)} :
            /\ Stripped(b, args.browser, Whitespace)
            /\ Stripped(p, args.port, Whitespace)
            /\ config.browser = None <=> b = <<>>
            /\ config.browser # None => config.browser = Some(b)
            /\ LET d == IF p # <<>> /\ p[1] = "+" THEN Tail(p) ELSE p
               IN  IF IsU16Numeral(p) /\ NumberOf(d) > 1024
                   THEN config.port = NumberOf(d)
                   ELSE config.port = 3008
\* a port string with blanks, a sign and a leading zero gave its number, and
\* a browser string between blanks gave the name
C31_Witness ==
    /\ mpc = "configured"
    /\ args.port = <<" ", "+", "0", "1", "0", "2", "5", " ">>
    /\ config.port = 1025
    /\ args.browser = <<" ", "f", " ", "x">>
    /\ config.browser = Some(<<"f", " ", "x">>)

\* the notification the main loop took last
LastTaken == yielded[1][Len(yielded[1])]

\* C32: after the main loop has processed a notification whose params[0]
\* and params[1] are both strings, the previewed file path is params[0] and
\* the CSS path is params[1] joined with nvim-previewer-alt.css when the
\* event name is "preview_alt" and with nvim-previewer-default.css for
\* every other event name.
C32_BothStringsPreviewed ==
    (/\ mpc # "off"
     /\ yielded[1] # <<>>
     /\ Len(LastTaken[2]) >= 2
     /\ LastTaken[2][1].k = "str"
     /\ LastTaken[2][2].k = "str") =>
        /\ PREVIEW_FILE_PATH = Some(LastTaken[2][1].v)
        /\ PREVIEW_CSS_PATH =
              Some(Join(LastTaken[2][2].v,
                        IF LastTaken[1] = "preview_alt"
                        THEN "nvim-previewer-alt.css"
                        ELSE "nvim-previewer-default.css"))
\* the second of two notifications was a preview_alt with both strings: the
\* paths are its own, and the browser was launched for it
C32_Witness ==
    /\ mpc = "recv"
    /\ Len(yielded[1]) = 2
    /\ yielded[1][1] = <<"preview", <<StrV(<<"b">>), StrV(<<"p", "/">>), Nil>> >>
    /\ LastTaken = <<"preview_alt", <<StrV(<<"a">>), StrV(<<"/", "p">>)>> >>
    /\ PREVIEW_FILE_PATH = Some(<<"a">>)
    /\ PREVIEW_CSS_PATH = Some(<<"/", "p", "/", "nvim-previewer-alt.css">>)
    /\ Len(opened) = 2

\* C33: a notification whose params[0] is missing or is not a string is
\* skipped by the main loop: in the turn that takes it the previewed file
\* path and the CSS path keep their values and no browser is launched.
C33_NoFileIsSkipped ==
    [][(/\ mpc = "recv"
        /\ yielded'[1] # yielded[1]
        /\ \/ Head(notif[1])[2] = <<>>
           \/ Head(notif[1])[2][1].k # "str")
       => UNCHANGED <<PREVIEW_FILE_PATH, PREVIEW_CSS_PATH, opened>>]_vars
\* a notification with both strings was previewed, then one whose params[0]
\* is an integer was taken: the paths are still those of the first and the
\* browser was launched once
C33_Witness ==
    /\ Len(yielded[1]) = 2
    /\ yielded[1][1] = <<"preview", <<StrV(<<"a">>), StrV(<<"/", "p">>)>> >>
    /\ LastTaken = <<"preview", <<IntV(1), StrV(<<"/", "p">>)>> >>
    /\ PREVIEW_FILE_PATH = Some(<<"a">>)
    /\ PREVIEW_CSS_PATH = Some(<<"/", "p", "/", "nvim-previewer-default.css">>)
    /\ Len(opened) = 1
    /\ printed = <<"no file to be previewed">>

====
